---- MODULE Spec2Model ----
(***************************************************************************)
(* State-machine model of fightish:                                        *)
(*   RenderEngine::new and RenderEngine::render  (src/src/engine.rs)       *)
(*   SimpleLoader::new and load, the check model and make_load_test        *)
(*                                                (src/src/model.rs)       *)
(*   pad_to_copy_buffer_alignment, ModelGroup::size and the host structs   *)
(*                                        (src/src/buffer_structs.rs)      *)
(*   RenderContext and RenderTarget               (src/src/render.rs)      *)
(*   App and its event handlers                   (src/src/lib.rs)         *)
(* The state is the engine (its buffers and bind groups), the tables the   *)
(* engine reads (MODEL_INFO, FRAME_INFO), a log of the last render call,   *)
(* and one variable for each of the loader, the padding function, the App, *)
(* the expansion pass on the device and the RenderContext.  There is one   *)
(* specification for each of them: Spec (frames rendered by the engine),   *)
(* LoaderSpec, PadSpec, AppSpec, ExpandSpec and ContextSpec; a             *)
(* specification leaves the variables it does not use as they start.       *)
(***************************************************************************)
EXTENDS Integers, Sequences, FiniteSets, TLC

VARIABLES
    model_info,   \* check::MODEL_INFO: the requested buffer sizes
    frame_info,   \* check::FRAME_INFO: one FrameInfo per model frame
    engine,       \* the RenderEngine built by RenderEngine::new
    frame,        \* what the last call of RenderEngine::render did
    loader,       \* a model being made and loaded: make_load_test, SimpleLoader
    pad,          \* a call of pad_to_copy_buffer_alignment: argument, result
    app,          \* the App of lib.rs: its target, its engine, the event loop
    gpu,          \* the expansion pass of the submitted frame on the device
    context       \* the RenderContext: its device list, the targets it made

vars == <<model_info, frame_info, engine, frame, loader, pad, app, gpu, context>>

---------------------------------------------------------------------------
(* Bounds of the model.                                                    *)

\* longest scene (number of objects) handed to render
MaxObjects == 5
\* longest scene whose objects may each refer to a different frame; a longer
\* scene repeats one frame
MaxMixedObjects == 3
\* largest value of requested_scene_objects / _frame_shards / _frame_segments
MaxRequested == 4
\* largest num_frames handed to make_load_test
MaxFrames == 2
\* largest number of shards make_load_test may draw for a frame
MaxFrameShards == 2
\* largest number of segments make_load_test may draw for a shard
MaxShardSegments == 2
\* width in bits of a buffer address (wgpu::BufferAddress) in the model; the
\* source's u64 has 64
AddressBits == 7
\* longest scene whose expansion pass is followed step by step on the device
MaxWorkUnits == 2

\* A generated model has at most MaxModelShards shards in all.
MaxModelShards == 4

\* The adapters of the machine are 1..MaxAdapters.
MaxAdapters == 2

\* RenderContext::create_target is called at most MaxTargets times with
\* success.
MaxTargets == 3

\* A window's width and height are in 0..MaxSide.
MaxSide == 2

---------------------------------------------------------------------------
(* Helpers.                                                                *)

MaxOfSet(S) == CHOOSE x \in S : \A y \in S : y <= x

\* Sequences over S of length 0..n
SeqUpTo(S, n) == UNION {[1..k -> S] : k \in 0..n}

---------------------------------------------------------------------------
(* Buffer addresses (buffer_structs.rs): unsigned words of AddressBits     *)
(* bits, with the bit operations of the source.                            *)

\* The number of values of a buffer address.
AddressLimit == 2 ^ AddressBits

\* wgpu::COPY_BUFFER_ALIGNMENT
COPY_BUFFER_ALIGNMENT == 4

\* a & b, bit by bit
RECURSIVE BitAnd(_, _)
BitAnd(a, b) ==
    IF a = 0 \/ b = 0
    THEN 0
    ELSE (a % 2) * (b % 2) + 2 * BitAnd(a \div 2, b \div 2)

\* !a
BitNot(a) == AddressLimit - 1 - a

\* a.max(b)
Max(a, b) == IF a >= b THEN a ELSE b

\* pad_to_copy_buffer_alignment, with the sum taken modulo the word as a
\* build without overflow checks takes it.
pad_to_copy_buffer_alignment_no_max(size) ==
    LET align_mask == COPY_BUFFER_ALIGNMENT - 1
    IN  BitAnd((size + align_mask) % AddressLimit, BitNot(align_mask))

pad_to_copy_buffer_alignment(size) ==
    LET align_mask == COPY_BUFFER_ALIGNMENT - 1
    IN  Max(BitAnd((size + align_mask) % AddressLimit, BitNot(align_mask)),
            COPY_BUFFER_ALIGNMENT)

\* What a call can do: where size + align_mask does not fit the word, a
\* build with overflow checks panics and one without goes on with the
\* wrapped sum.
PadOutcomes(size) ==
    IF size + (COPY_BUFFER_ALIGNMENT - 1) >= AddressLimit
    THEN { [panicked |-> TRUE, result |-> 0],
           [panicked |-> FALSE, result |-> pad_to_copy_buffer_alignment(size)] }
    ELSE { [panicked |-> FALSE, result |-> pad_to_copy_buffer_alignment(size)] }

---------------------------------------------------------------------------
(* Models (model.rs).  A shard keeps its segment_range and clip_depth, a   *)
(* frame its shard_range and segment_range; ranges are [start, end) pairs  *)
(* with 0-based indices, as in the source.                                 *)

\* model.rs check::SHARDS, check::FRAMES (check::model())
CheckModel ==
    [ vertices |-> 5, segments |-> 7,
      shards |-> << [segment_range |-> <<0, 4>>, clip_depth |-> 0],
                    [segment_range |-> <<4, 7>>, clip_depth |-> 1] >>,
      frames |-> << [shard_range |-> <<0, 2>>, segment_range |-> <<0, 7>>] >> ]

\* Two further input models, with two frames each, whose frames differ in
\* all three sizes: a deep single shard next to two flat shards, and an
\* empty frame next to a one-shard frame.
DeepModel ==
    [ vertices |-> 8, segments |-> 4,
      shards |-> << [segment_range |-> <<0, 3>>, clip_depth |-> 2],
                    [segment_range |-> <<3, 4>>, clip_depth |-> 0],
                    [segment_range |-> <<4, 4>>, clip_depth |-> 0] >>,
      frames |-> << [shard_range |-> <<0, 1>>, segment_range |-> <<0, 3>>],
                    [shard_range |-> <<1, 3>>, segment_range |-> <<3, 4>>] >> ]

EmptyFrameModel ==
    [ vertices |-> 4, segments |-> 2,
      shards |-> << [segment_range |-> <<0, 2>>, clip_depth |-> 0] >>,
      frames |-> << [shard_range |-> <<0, 0>>, segment_range |-> <<0, 0>>],
                    [shard_range |-> <<0, 1>>, segment_range |-> <<0, 2>>] >> ]

Models == {CheckModel, DeepModel, EmptyFrameModel}

\* make_load_test.  The answers of the random number generator are an input:
\* rng[f] lists, for frame f, the num_segments drawn for each of its shards,
\* and its length is the num_shards drawn for the frame.  Of the vertices and
\* the segments the model keeps how many there are.
RngDraws(num_frames, num_frame_shards, num_shard_segments) ==
    [ 1..num_frames ->
        UNION { [1..n -> num_shard_segments[1] .. (num_shard_segments[2] - 1)] :
                n \in num_frame_shards[1] .. (num_frame_shards[2] - 1) } ]

ModelShardDepthFromOne(shard_segment_offset, segments_len, shard) ==
    [ segment_range |-> <<shard_segment_offset, segments_len>>,
      clip_depth |-> shard + 1 ]

\* The ModelShard pushed for shard number shard of a frame.
ModelShard(shard_segment_offset, segments_len, shard) ==
    [ segment_range |-> <<shard_segment_offset, segments_len>>,
      clip_depth |-> shard ]

shard_segments_one_based(vertex_offset, corner_offset, num_segments) ==
    << <<corner_offset + num_segments, corner_offset + 1, vertex_offset + 1, -1>> >>
    \o [ i \in 1..(num_segments - 1) |->
             <<corner_offset + i, corner_offset + i + 1, vertex_offset + i + 1, -1>> ]

\* let mut shard_segments: the idx of the segments of a shard of
\* num_segments > 0 segments, whose control vertices start at vertex_offset
\* and whose corner vertices start at corner_offset.
shard_segments(vertex_offset, corner_offset, num_segments) ==
    << <<corner_offset + num_segments - 1, corner_offset, vertex_offset, -1>> >>
    \o [ i \in 1..(num_segments - 1) |->
             <<corner_offset + i - 1, corner_offset + i, vertex_offset + i, -1>> ]

\* The loop `for shard in 0..num_shards` from shard number shard on.  The
\* model keeps the number of its vertices and of its segments, and in idx
\* the idx of every segment.
RECURSIVE PushShards(_, _, _)
PushShards(m, num_segments, shard) ==
    IF shard >= Len(num_segments)
    THEN m
    ELSE LET shard_segment_offset == m.segments
             n == num_segments[shard + 1]
         IN  IF n = 0
             THEN PushShards(
                      [ m EXCEPT !.shards =
                          Append(@, ModelShard(shard_segment_offset,
                                               shard_segment_offset, shard)) ],
                      num_segments, shard + 1)
             ELSE PushShards(
                      [ m EXCEPT !.vertices = @ + n + n,
                                 !.segments = @ + n,
                                 !.idx = @ \o shard_segments(m.vertices,
                                                             m.vertices + n, n),
                                 !.shards =
                          Append(@, ModelShard(shard_segment_offset,
                                               m.segments + n, shard)) ],
                      num_segments, shard + 1)

\* The ModelFrame pushed once the shards of a frame are in m.
ModelFrameFromZero(frame_shard_offset, frame_segment_offset, m) ==
    [ shard_range |-> <<0, Len(m.shards)>>,
      segment_range |-> <<0, m.segments>> ]

ModelFrame(frame_shard_offset, frame_segment_offset, m) ==
    [ shard_range |-> <<frame_shard_offset, Len(m.shards)>>,
      segment_range |-> <<frame_segment_offset, m.segments>> ]

\* The loop `for frame in 0..num_frames` from frame number frame_number on.
RECURSIVE PushFrames(_, _, _, _)
PushFrames(m, num_frames, rng, frame_number) ==
    IF frame_number >= num_frames
    THEN m
    ELSE LET frame_segment_offset == m.segments
             frame_shard_offset == Len(m.shards)
             with_shards == PushShards(m, rng[frame_number + 1], 0)
         IN  PushFrames(
                 [ with_shards EXCEPT !.frames =
                     Append(@, ModelFrame(frame_shard_offset,
                                          frame_segment_offset, with_shards)) ],
                 num_frames, rng, frame_number + 1)

make_load_test(num_frames, rng) ==
    PushFrames([ vertices |-> 0, segments |-> 0, idx |-> <<>>, shards |-> <<>>,
                 frames |-> <<>> ],
               num_frames, rng, 0)

\* FrameInfo::default()
DefaultFrameInfo == [clip_size |-> 0, shard_size |-> 0, segment_size |-> 0]

\* The closure of SimpleLoader::new: the FrameInfo of one frame f of model m.
FrameInfoOfMaxDepth(m, f) ==
    IF f.shard_range[1] = f.shard_range[2]
    THEN [clip_size |-> 0, shard_size |-> 0, segment_size |-> 0]
    ELSE [ clip_size |->
               MaxOfSet({ m.shards[i + 1].clip_depth :
                          i \in f.shard_range[1] .. (f.shard_range[2] - 1) }),
           shard_size |-> f.shard_range[2] - f.shard_range[1],
           segment_size |-> f.segment_range[2] - f.segment_range[1] ]

FrameInfoOf(m, f) ==
    IF f.shard_range[1] = f.shard_range[2]
    THEN DefaultFrameInfo
    ELSE [ clip_size |->
               MaxOfSet({ m.shards[i + 1].clip_depth :
                          i \in f.shard_range[1] .. (f.shard_range[2] - 1) }) + 1,
           shard_size |-> f.shard_range[2] - f.shard_range[1],
           segment_size |-> f.segment_range[2] - f.segment_range[1] ]

\* SimpleLoader::new: the frame_info list, one entry per frame, in order.
SimpleLoader_new(m) == [k \in 1..Len(m.frames) |-> FrameInfoOf(m, m.frames[k])]

\* check::MODEL_INFO: the three requested sizes the engine reads.
ModelInfos ==
    [ requested_scene_objects : 1..MaxRequested,
      requested_frame_shards : 1..MaxRequested,
      requested_frame_segments : 1..MaxRequested ]

---------------------------------------------------------------------------
(* Scenes (scene.rs): the objects of a SceneData, each reduced to its      *)
(* frame_index (0-based); every index is a valid index into frame_info.    *)

FrameIndices == 0 .. (Len(frame_info) - 1)

Scenes ==
    SeqUpTo(FrameIndices, MaxMixedObjects)
    \cup {[k \in 1..n |-> f] : n \in 0..MaxObjects, f \in FrameIndices}

---------------------------------------------------------------------------
(* Buffers and bind groups.  A buffer is its handle (id) and its element   *)
(* count; a bind group is its handle and the buffer handles it binds.  The *)
(* contents a call of render stages for a buffer are kept in the log of    *)
(* that call.                                                              *)

\* DeviceHandle::create_buffer_with_layout_enum(layout, count): a new
\* buffer of count elements.
create_buffer_with_layout_enum(id, count) == [id |-> id, count |-> count]

\* Queue::write_buffer_with(buffer, 0, size) followed by the copy into the
\* view: records are staged for the first Len(records) elements of the
\* buffer, which keeps its handle and its size.
write_buffer_grow(buffer, records) ==
    [ buffer |-> [buffer EXCEPT !.count = 2 * @], written |-> records ]

write_buffer_recreate(buffer, records) ==
    [ buffer |-> [buffer EXCEPT !.id = @ + 100], written |-> records ]

write_buffer_with(buffer, records) ==
    [ buffer |-> buffer, written |-> records ]

\* The frame bind group / frame read bind group of RenderEngine::new.
frame_bind_group(id, segment_frame_buffer, shard_vertex_frame_buffer) ==
    [ id |-> id,
      Segment |-> segment_frame_buffer.id,
      ShardVertex |-> shard_vertex_frame_buffer.id ]

\* RenderEngine::new
RenderEngine_new(info) ==
    LET world_uniforms_buffer == create_buffer_with_layout_enum(1, 1)
        segment_frame_buffer ==
            create_buffer_with_layout_enum(2, info.requested_frame_segments)
        shard_vertex_frame_buffer ==
            create_buffer_with_layout_enum(3, info.requested_frame_shards * 6)
        object_scene_buffer ==
            create_buffer_with_layout_enum(4, info.requested_scene_objects)
    IN  [ world_uniforms_buffer |-> world_uniforms_buffer,
          uniform_bind_group |-> [id |-> 11, World |-> world_uniforms_buffer.id],
          shard_vertex_frame_buffer |-> shard_vertex_frame_buffer,
          segment_frame_buffer |-> segment_frame_buffer,
          frame_bind_group |->
              frame_bind_group(12, segment_frame_buffer, shard_vertex_frame_buffer),
          frame_read_bind_group |->
              frame_bind_group(13, segment_frame_buffer, shard_vertex_frame_buffer),
          object_scene_buffer |-> object_scene_buffer,
          scene_bind_group |-> [id |-> 14, Object |-> object_scene_buffer.id] ]

---------------------------------------------------------------------------
(* RenderEngine::render                                                    *)

\* objects[1..n].iter().map(|o| FRAME_INFO[o.frame_index][field]).sum()
RECURSIVE SumField(_, _, _)
SumField(objects, n, field) ==
    IF n = 0
    THEN 0
    ELSE frame_info[objects[n] + 1][field] + SumField(objects, n - 1, field)

\* let shard_extent: u32 = objects.map(FRAME_INFO[frame_index].shard_size).sum()
shard_extent_clip(objects) == SumField(objects, Len(objects), "clip_size")

shard_extent(objects) == SumField(objects, Len(objects), "shard_size")

\* let segment_extent: u32 = objects.map(FRAME_INFO[frame_index].shard_size).sum()
segment_extent(objects) == SumField(objects, Len(objects), "shard_size")

\* The three accumulators after one object of frame f was written.
NextOffsetsCopyPaste(offsets, f) ==
    [ clip_offset |-> offsets.clip_offset + f.clip_size,
      shard_offset |-> offsets.shard_offset + f.shard_size,
      segment_offset |-> offsets.segment_offset + f.shard_size ]

NextOffsets(offsets, f) ==
    [ clip_offset |-> offsets.clip_offset + f.clip_size,
      shard_offset |-> offsets.shard_offset + f.shard_size,
      segment_offset |-> offsets.segment_offset + f.segment_size ]

\* The loop over scene_data.objects: the FrameObject records written, from
\* object i on, with the accumulators as they stand before object i.
RECURSIVE FrameObjectsSkipLast(_, _, _)
FrameObjectsSkipLast(objects, i, offsets) ==
    IF i >= Len(objects)
    THEN <<>>
    ELSE << [ frame_index |-> objects[i],
              clip_offset |-> offsets.clip_offset,
              shard_offset |-> offsets.shard_offset,
              segment_offset |-> offsets.segment_offset ] >>
         \o FrameObjectsSkipLast(objects, i + 1,
                                 NextOffsets(offsets, frame_info[objects[i] + 1]))

RECURSIVE FrameObjects(_, _, _)
FrameObjects(objects, i, offsets) ==
    IF i > Len(objects)
    THEN <<>>
    ELSE << [ frame_index |-> objects[i],
              clip_offset |-> offsets.clip_offset,
              shard_offset |-> offsets.shard_offset,
              segment_offset |-> offsets.segment_offset ] >>
         \o FrameObjects(objects, i + 1,
                         NextOffsets(offsets, frame_info[objects[i] + 1]))

ZeroOffsets == [clip_offset |-> 0, shard_offset |-> 0, segment_offset |-> 0]

\* How a call of render ends.  views is the number of buffer views that
\* Queue::write_buffer_with hands out before it answers None: 0 refuses the
\* object buffer's view, 1 the world uniforms buffer's, 2 refuses none.
RenderResult(objects, shards, segments, views) ==
    IF Len(objects) > model_info.requested_scene_objects
        THEN "ErrObjects"          \* "Number of objects exceeds buffer size."
    ELSE IF shards > model_info.requested_frame_shards
        THEN "ErrShards"           \* "Number of frame shards exceeds buffer size."
    ELSE IF segments > model_info.requested_frame_segments
        THEN "ErrSegments"         \* "Number of frame segments exceeds buffer size."
    ELSE IF Len(objects) = 0
        THEN "Panic"               \* BufferSize::new(0).unwrap()
    ELSE IF views = 0
        THEN "ErrObjectView"       \* "Unable to get object buffer view"
    ELSE IF views = 1
        THEN "ErrUniformView"      \* "Could not write to world uniforms buffer"
    ELSE "Ok"

\* The steps a call performs, in order, for each way it ends.
CommandsCheckLate(result) ==
    CASE result \in {"ErrObjects", "ErrShards", "ErrSegments"} ->
            <<"create_command_encoder", "write_object_scene_buffer">>
      [] result \in {"Panic", "ErrObjectView"} -> <<"create_command_encoder">>
      [] result = "ErrUniformView" ->
            <<"create_command_encoder", "write_object_scene_buffer">>
      [] result = "Ok" ->
            <<"create_command_encoder", "write_object_scene_buffer",
              "write_world_uniforms_buffer", "compute_pass", "render_pass",
              "submit">>

CommandsDrawFirst(result) ==
    CASE result \in {"ErrObjects", "ErrShards", "ErrSegments"} -> <<>>
      [] result \in {"Panic", "ErrObjectView"} -> <<"create_command_encoder">>
      [] result = "ErrUniformView" ->
            <<"create_command_encoder", "write_object_scene_buffer">>
      [] result = "Ok" ->
            <<"create_command_encoder", "write_object_scene_buffer",
              "write_world_uniforms_buffer", "render_pass", "compute_pass",
              "submit">>

Commands(result) ==
    CASE result \in {"ErrObjects", "ErrShards", "ErrSegments"} -> <<>>
      [] result \in {"Panic", "ErrObjectView"} -> <<"create_command_encoder">>
      [] result = "ErrUniformView" ->
            <<"create_command_encoder", "write_object_scene_buffer">>
      [] result = "Ok" ->
            <<"create_command_encoder", "write_object_scene_buffer",
              "write_world_uniforms_buffer", "compute_pass", "render_pass",
              "submit">>

\* Whether step c is among commands.
Done(commands, c) == \E k \in 1..Len(commands) : commands[k] = c

\* How often step c is among commands, and whether a step a comes before a
\* step b.
Count(commands, c) == Cardinality({k \in 1..Len(commands) : commands[k] = c})

Before(commands, a, b) ==
    \E i, j \in 1..Len(commands) : i < j /\ commands[i] = a /\ commands[j] = b

Render(objects, views) ==
    LET shards == shard_extent(objects)
        segments == segment_extent(objects)
        result == RenderResult(objects, shards, segments, views)
        commands == Commands(result)
        object_write ==
            write_buffer_with(engine.object_scene_buffer,
                              FrameObjects(objects, 1, ZeroOffsets))
        uniform_write ==
            write_buffer_with(engine.world_uniforms_buffer, <<"Uniforms">>)
    IN  /\ frame.result # "Panic"
        /\ engine' =
             [ engine EXCEPT
                 !.object_scene_buffer =
                     IF Done(commands, "write_object_scene_buffer")
                     THEN object_write.buffer ELSE @,
                 !.world_uniforms_buffer =
                     IF Done(commands, "write_world_uniforms_buffer")
                     THEN uniform_write.buffer ELSE @ ]
        /\ frame' =
             [ objects |-> objects,
               result |-> result,
               shard_extent |-> IF result = "ErrObjects" THEN -1 ELSE shards,
               segment_extent |-> IF result = "ErrObjects" THEN -1 ELSE segments,
               commands |-> commands,
               object_scene_data |->
                   IF Done(commands, "write_object_scene_buffer")
                   THEN object_write.written ELSE <<>>,
               world_uniforms_data |->
                   IF Done(commands, "write_world_uniforms_buffer")
                   THEN uniform_write.written ELSE <<>>,
               dispatch_workgroups |->
                   IF Done(commands, "compute_pass") THEN Len(objects) ELSE -1,
               draw_vertices |->
                   IF Done(commands, "render_pass") THEN shards * 6 ELSE -1 ]
        /\ UNCHANGED <<model_info, frame_info>>

-----
(* The specification: the engine is built once, then frames are rendered.  *)

\* No model is being made or loaded, no size is being padded, no App runs,
\* no pass runs on the device.
NoLoad == [stage |-> "none"]

NoPad == [stage |-> "none"]

NoApp == [stage |-> "none"]

NoGpu == [stage |-> "none"]

NoContext == [stage |-> "none"]

NoFrame ==
    [ objects |-> <<>>, result |-> "None", shard_extent |-> -1,
      segment_extent |-> -1, commands |-> <<>>, object_scene_data |-> <<>>,
      world_uniforms_data |-> <<>>, dispatch_workgroups |-> -1,
      draw_vertices |-> -1 ]

Init ==
    /\ model_info \in ModelInfos
    /\ frame_info \in {SimpleLoader_new(m) : m \in Models}
    /\ engine = RenderEngine_new(model_info)
    /\ frame = NoFrame
    /\ loader = NoLoad
    /\ pad = NoPad
    /\ app = NoApp
    /\ gpu = NoGpu
    /\ context = NoContext

Next ==
    \E objects \in Scenes, views \in 0..2 :
        Render(objects, views) /\ UNCHANGED <<loader, pad, app, gpu, context>>

Spec == Init /\ [][Next]_vars

---------------------------------------------------------------------------
(* Making and loading a model: make_load_test or a given model, then       *)
(* SimpleLoader::new.  The engine is not involved.                         *)

\* A range lo..hi of u32 (std::ops::Range) that is not empty, as gen_range
\* requires, with at most max values below hi.
Ranges(max) == {r \in (0..max) \X (1..(max + 1)) : r[1] < r[2]}

\* The engine as it stands while no frame is rendered.
EngineIdle ==
    /\ model_info = [ requested_scene_objects |-> 1, requested_frame_shards |-> 1,
                      requested_frame_segments |-> 1 ]
    /\ frame_info = <<>>
    /\ engine = RenderEngine_new(model_info)
    /\ frame = NoFrame

LoaderInit ==
    /\ EngineIdle
    /\ pad = NoPad
    /\ app = NoApp
    /\ gpu = NoGpu
    /\ context = NoContext
    /\ loader \in [ stage : {"args"},
                     num_frames : 0..MaxFrames,
                     num_frame_shards : Ranges(MaxFrameShards),
                     num_shard_segments : Ranges(MaxShardSegments) ]

\* The number of shards drawn for the first n frames.
RECURSIVE DrawnShards(_, _)
DrawnShards(rng, n) == IF n = 0 THEN 0 ELSE Len(rng[n]) + DrawnShards(rng, n - 1)

\* let model = make_load_test(num_frames, num_frame_shards, num_shard_segments)
MakeLoadTest ==
    /\ loader.stage = "args"
    /\ \E rng \in RngDraws(loader.num_frames, loader.num_frame_shards,
                            loader.num_shard_segments) :
           /\ DrawnShards(rng, loader.num_frames) <= MaxModelShards
           /\ loader' = [ stage |-> "model", by |-> "make_load_test",
                       model |-> make_load_test(loader.num_frames, rng) ]
    /\ UNCHANGED <<model_info, frame_info, engine, frame, pad, app, gpu, context>>

\* let model = check::model(), or another model given as it is
GivenModel ==
    /\ loader.stage = "args"
    /\ \E m \in Models : loader' = [stage |-> "model", by |-> "given", model |-> m]
    /\ UNCHANGED <<model_info, frame_info, engine, frame, pad, app, gpu, context>>

\* SimpleLoader::new(model)
SimpleLoaderNew ==
    /\ loader.stage = "model"
    /\ loader' = [ stage |-> "loaded",
                   by |-> loader.by,
                   model |-> loader.model,
                   frame_info |-> SimpleLoader_new(loader.model) ]
    /\ UNCHANGED <<model_info, frame_info, engine, frame, pad, app, gpu, context>>

\* The host structs of buffer_structs.rs uploaded into the model buffers,
\* #[repr(C)]: each field an array of len elements of elem bytes, aligned to
\* elem.
ModelVertexFields == << [elem |-> 4, len |-> 2] >>

ModelSegmentFields == << [elem |-> 4, len |-> 4] >>

ModelShardFields ==
    << [elem |-> 4, len |-> 4], [elem |-> 4, len |-> 4], [elem |-> 4, len |-> 2],
       [elem |-> 4, len |-> 1], [elem |-> 4, len |-> 1] >>

ModelFrameFields == << [elem |-> 4, len |-> 2], [elem |-> 4, len |-> 2] >>

\* The smallest multiple of align that is >= offset.
AlignUp(offset, align) == ((offset + align - 1) \div align) * align

\* The offset after the first n fields of a #[repr(C)] struct.
RECURSIVE EndOfFields(_, _)
EndOfFields(fields, n) ==
    IF n = 0
    THEN 0
    ELSE AlignUp(EndOfFields(fields, n - 1), fields[n].elem)
             + fields[n].elem * fields[n].len

\* std::mem::size_of of a #[repr(C)] struct: the end of its last field,
\* rounded up to its alignment, the largest alignment of a field.
size_of(fields) ==
    AlignUp(EndOfFields(fields, Len(fields)),
            MaxOfSet({fields[n].elem : n \in 1..Len(fields)}))

ModelSlots == <<"Vertex", "Segment", "Shard", "Frame">>

\* The struct whose slice SimpleLoader::load copies into a slot's buffer.
HostStruct(slot) ==
    CASE slot = "Vertex" -> ModelVertexFields
      [] slot = "Segment" -> ModelSegmentFields
      [] slot = "Shard" -> ModelShardFields
      [] slot = "Frame" -> ModelFrameFields

ModelGroup_size_no_filler(slot) ==
    CASE slot = "Vertex" -> 8
      [] slot = "Segment" -> 16
      [] slot = "Shard" -> size_of(SubSeq(ModelShardFields, 1, 4))
      [] slot = "Frame" -> size_of(ModelFrameFields)

\* ModelGroup::size
ModelGroup_size(slot) ==
    CASE slot = "Vertex" -> 8
      [] slot = "Segment" -> 16
      [] slot = "Shard" -> size_of(ModelShardFields)
      [] slot = "Frame" -> size_of(ModelFrameFields)

\* The number of elements of model m that go into a slot's buffer.
ElementCount(m, slot) ==
    CASE slot = "Vertex" -> m.vertices
      [] slot = "Segment" -> m.segments
      [] slot = "Shard" -> Len(m.shards)
      [] slot = "Frame" -> Len(m.frames)

\* One write of SimpleLoader::load: the region write_buffer_with maps, of
\* ModelGroup::size() * count bytes, and the bytes of the host slice
\* (bytemuck::cast_slice) copied into it.  BufferSize::new(0).unwrap()
\* panics, write_buffer_with(..).unwrap() panics when the region does not
\* fit the buffer of buffer_size bytes, copy_from_slice panics when the two
\* lengths differ.
LoadWrite(m, slot) ==
    LET count == ElementCount(m, slot)
        buffer_size == ModelGroup_size(slot) * count
        region == ModelGroup_size(slot) * count
        copied == size_of(HostStruct(slot)) * count
    IN  [ slot |-> slot, count |-> count, region |-> region, copied |-> copied,
          panic |-> IF region = 0 THEN "BufferSize"
                    ELSE IF region > buffer_size THEN "write_buffer_with"
                    ELSE IF region # copied THEN "copy_from_slice"
                    ELSE "none" ]

\* The writes of SimpleLoader::load from slot number n on, up to the first
\* that panics.
RECURSIVE LoadWrites(_, _)
LoadWrites(m, n) ==
    IF n > Len(ModelSlots)
    THEN <<>>
    ELSE LET w == LoadWrite(m, ModelSlots[n])
         IN  IF w.panic # "none" THEN <<w>> ELSE <<w>> \o LoadWrites(m, n + 1)

\* SimpleLoader::load(device)
Load ==
    /\ loader.stage = "loaded"
    /\ LET writes == LoadWrites(loader.model, 1)
       IN  loader' = [ stage |-> IF writes[Len(writes)].panic = "none"
                                 THEN "uploaded" ELSE "load_panicked",
                       by |-> loader.by,
                       model |-> loader.model,
                       frame_info |-> loader.frame_info,
                       writes |-> writes ]
    /\ UNCHANGED <<model_info, frame_info, engine, frame, pad, app, gpu, context>>

LoaderNext == MakeLoadTest \/ GivenModel \/ SimpleLoaderNew \/ Load

LoaderSpec == LoaderInit /\ [][LoaderNext]_vars

---------------------------------------------------------------------------
(* A call of pad_to_copy_buffer_alignment, for every size of the word.     *)

PadInit ==
    /\ EngineIdle
    /\ loader = NoLoad
    /\ pad \in [stage : {"args"}, size : 0..(AddressLimit - 1)]
    /\ app = NoApp
    /\ gpu = NoGpu
    /\ context = NoContext

\* pad_to_copy_buffer_alignment(size)
Pad ==
    /\ pad.stage = "args"
    /\ \E outcome \in PadOutcomes(pad.size) :
           pad' = [ stage |-> "done", size |-> pad.size,
                    panicked |-> outcome.panicked, result |-> outcome.result ]
    /\ UNCHANGED <<model_info, frame_info, engine, frame, loader, app, gpu, context>>

PadNext == Pad

PadSpec == PadInit /\ [][PadNext]_vars

---------------------------------------------------------------------------
(* The RenderContext of render.rs.  A DeviceHandle is reduced to its       *)
(* adapter, a surface to the set of adapters that support it               *)
(* (Adapter::is_surface_supported), a size to <<width, height>>.           *)

Adapters == 1..MaxAdapters

Surfaces == SUBSET Adapters

Sizes == (0..MaxSide) \X (0..MaxSide)

\* request_adapter returned None
NoAdapter == 0

\* Option<DeviceId>::None
NoDevice == -1

MinOfSet(S) == CHOOSE x \in S : \A y \in S : x <= y

new_device_id_after_push(devices, adapter, granted) ==
    IF adapter = NoAdapter \/ ~granted
    THEN [devices |-> devices, id |-> NoDevice]
    ELSE [devices |-> Append(devices, adapter), id |-> Len(devices) + 1]

\* RenderContext::new_device.  adapter: what request_adapter returned;
\* granted: whether request_device succeeded.  DeviceId is the 0-based
\* index of the pushed handle.
new_device(devices, adapter, granted) ==
    IF adapter = NoAdapter \/ ~granted
    THEN [devices |-> devices, id |-> NoDevice]
    ELSE [devices |-> Append(devices, adapter), id |-> Len(devices)]

\* RenderContext::device(Some(surface)): the first device whose adapter
\* supports the surface, else a new device.
device(devices, surface, adapter, granted) ==
    LET compatible == {i \in 1..Len(devices) : devices[i] \in surface}
    IN  IF compatible # {}
        THEN [devices |-> devices, id |-> MinOfSet(compatible) - 1]
        ELSE new_device(devices, adapter, granted)

NoTarget == [width |-> 0, height |-> 0, minimized |-> FALSE, device_id |-> NoDevice]

\* RenderContext::create_target for a window of inner size `size`.
\* surface_made: whether Instance::create_surface succeeded.
create_target(devices, size, surface_made, surface, adapter, granted) ==
    IF size[1] = 0 \/ size[2] = 0 \/ ~surface_made
    THEN [ok |-> FALSE, devices |-> devices, target |-> NoTarget]
    ELSE LET d == device(devices, surface, adapter, granted)
         IN  IF d.id = NoDevice
             THEN [ok |-> FALSE, devices |-> d.devices, target |-> NoTarget]
             ELSE [ ok |-> TRUE, devices |-> d.devices,
                    target |-> [ width |-> size[1], height |-> size[2],
                                 minimized |-> FALSE, device_id |-> d.id ] ]

\* RenderContext::get_device_by_id: &self.devices[*id]
get_device_by_id(devices, id) ==
    IF id >= 0 /\ id < Len(devices)
    THEN [panicked |-> FALSE, adapter |-> devices[id + 1]]
    ELSE [panicked |-> TRUE, adapter |-> NoAdapter]

resize_surface_store_any(target, size) ==
    IF size[1] > 0 /\ size[2] > 0
    THEN [target EXCEPT !.width = size[1], !.height = size[2],
                        !.minimized = FALSE]
    ELSE [target EXCEPT !.width = size[1], !.height = size[2],
                        !.minimized = TRUE]

\* RenderContext::resize_surface
resize_surface(target, size) ==
    IF size[1] > 0 /\ size[2] > 0
    THEN [target EXCEPT !.width = size[1], !.height = size[2],
                        !.minimized = FALSE]
    ELSE [target EXCEPT !.minimized = TRUE]

is_live_ignored(target) == TRUE

\* RenderTarget::is_live
is_live(target) == ~target.minimized

\* RenderTarget::get_data
get_data(target) ==
    [vp_x |-> 0, vp_y |-> 0, vp_width |-> target.width, vp_height |-> target.height]

\* RenderContext::new
ContextInit ==
    /\ EngineIdle
    /\ loader = NoLoad
    /\ pad = NoPad
    /\ app = NoApp
    /\ gpu = NoGpu
    /\ context = [ stage |-> "new", devices |-> <<>>, targets |-> <<>>,
                   surface |-> {}, read |-> NoDevice, panicked |-> FALSE ]

\* A call of create_target; surface is remembered as the surface of the
\* last call, targets are the device_id of every target made.
CreateTarget ==
    /\ ~context.panicked
    /\ Len(context.targets) < MaxTargets
    /\ \E size \in Sizes, surface_made \in BOOLEAN, surface \in Surfaces,
          granted \in BOOLEAN :
          \E adapter \in surface \cup {NoAdapter} :
              LET r == create_target(context.devices, size, surface_made,
                                     surface, adapter, granted)
              IN  context' =
                      [ context EXCEPT
                          !.stage = "create_target",
                          !.devices = r.devices,
                          !.surface = surface,
                          !.targets = IF r.ok
                                      THEN Append(@, r.target.device_id)
                                      ELSE @ ]
    /\ UNCHANGED <<model_info, frame_info, engine, frame, loader, pad, app, gpu>>

\* RenderContext::get_target_device for the t-th target made
GetTargetDevice(t) ==
    /\ ~context.panicked
    /\ t <= Len(context.targets)
    /\ LET r == get_device_by_id(context.devices, context.targets[t])
       IN  context' = [ context EXCEPT !.stage = "get_target_device",
                                       !.read = context.targets[t],
                                       !.panicked = r.panicked ]
    /\ UNCHANGED <<model_info, frame_info, engine, frame, loader, pad, app, gpu>>

ContextNext ==
    \/ CreateTarget
    \/ \E t \in 1..MaxTargets : GetTargetDevice(t)

ContextSpec == ContextInit /\ [][ContextNext]_vars

---------------------------------------------------------------------------
(* The App of lib.rs under the events of the event loop.  target is the    *)
(* RenderTarget when has_target; created counts the targets and engines    *)
(* made; panic tells which panic ended the program; calls and vp are the   *)
(* calls App::render made and the viewport it gave the scene while the     *)
(* last event was handled (none for an event that is not a redraw);        *)
(* outcome is how the last handling of RedrawRequested ended; the AppState *)
(* is reduced to whether an input has changed it.                          *)

\* AppState::create_scene_data: two objects of frame 0
create_scene_data == <<0, 0>>

\* The check::MODEL_INFO the App is run with: as many objects as shards
\* requested, which leaves every result of render reachable for the scene
\* of create_scene_data.
AppModelInfos ==
    {m \in ModelInfos : m.requested_scene_objects = m.requested_frame_shards}

\* App::new, with the engine's tables as RenderEngine::new will read them
AppInit ==
    /\ model_info \in AppModelInfos
    /\ frame_info = SimpleLoader_new(CheckModel)
    /\ engine = RenderEngine_new(model_info)
    /\ frame = NoFrame
    /\ loader = NoLoad
    /\ pad = NoPad
    /\ app = [ stage |-> "new", has_target |-> FALSE, target |-> NoTarget,
               engine |-> FALSE, created |-> 0, panic |-> "none",
               state |-> "initial", redraw_requested |-> FALSE,
               calls |-> <<>>, outcome |-> "none", vp |-> <<0, 0>>,
               presented |-> FALSE, warned |-> FALSE ]
    /\ gpu = NoGpu
    /\ context = [ stage |-> "new", devices |-> <<>>, targets |-> <<>>,
                   surface |-> {}, read |-> NoDevice, panicked |-> FALSE ]

resumed_assert_skipped(has_target) == TRUE

\* assert!(self.target.is_none(), "Suspending and resuming are not supported.")
resumed_assert(has_target) == ~has_target

\* ApplicationHandler::resumed.  window_made: whether create_window
\* succeeds; the other inputs are those of create_target.  The assertion
\* and the two unwraps panic.
Resumed ==
    /\ app.stage \in {"new", "running"}
    /\ LET here == [app EXCEPT !.calls = <<>>, !.vp = <<0, 0>>]
       IN  IF ~resumed_assert(app.has_target)
           THEN /\ app' = [here EXCEPT !.stage = "crashed", !.panic = "assert"]
                /\ UNCHANGED <<engine, context>>
           ELSE \E window_made \in BOOLEAN, size \in Sizes,
                   surface_made \in BOOLEAN, surface \in Surfaces,
                   granted \in BOOLEAN :
                \E adapter \in surface \cup {NoAdapter} :
                   LET r == create_target(context.devices, size, surface_made,
                                          surface, adapter, granted)
                   IN  IF ~window_made
                       THEN /\ app' = [here EXCEPT !.stage = "crashed",
                                                   !.panic = "unwrap"]
                            /\ UNCHANGED <<engine, context>>
                       ELSE IF ~r.ok
                       THEN /\ app' = [here EXCEPT !.stage = "crashed",
                                                   !.panic = "unwrap"]
                            /\ context' = [ context EXCEPT
                                              !.stage = "create_target",
                                              !.devices = r.devices,
                                              !.surface = surface ]
                            /\ UNCHANGED engine
                       ELSE /\ app' = [here EXCEPT !.stage = "running",
                                                   !.has_target = TRUE,
                                                   !.target = r.target,
                                                   !.engine = TRUE,
                                                   !.created = @ + 1]
                            /\ context' =
                                   [ context EXCEPT
                                       !.stage = "create_target",
                                       !.devices = r.devices,
                                       !.surface = surface,
                                       !.targets = Append(@, r.target.device_id) ]
                            /\ engine' = RenderEngine_new(model_info)
    /\ UNCHANGED <<model_info, frame_info, frame, loader, pad, gpu>>

\* The Option<RenderTarget> of the App as App::render sees it.
TargetState(a) ==
    IF ~a.has_target THEN "None"
    ELSE IF is_live(a.target) THEN "Live"
    ELSE "Minimized"

\* How App::render ends when it does not reach the engine, or with the
\* result the engine's render returned.
AppRenderOutcome(target, has_engine, acquired, result) ==
    IF target = "None" THEN "NoTarget"
    ELSE IF target = "Minimized" THEN "NotLive"
    ELSE IF ~acquired THEN "SurfaceError"
    ELSE IF ~has_engine THEN "EngineMissing"
    ELSE IF result = "Panic" THEN "Panic"
    ELSE IF result = "Ok" THEN "Ok"
    ELSE "RenderErr"

AppRenderCallsPresentEarly(outcome) ==
    CASE outcome = "NoTarget" -> <<>>
      [] outcome = "NotLive" -> <<"is_live">>
      [] outcome \in {"SurfaceError", "EngineMissing"} ->
            <<"is_live", "get_current_texture">>
      [] outcome \in {"Panic", "RenderErr"} ->
            <<"is_live", "get_current_texture", "present", "engine.render">>
      [] outcome = "Ok" ->
            <<"is_live", "get_current_texture", "present", "engine.render",
              "request_redraw">>

\* The calls App::render makes, in order, up to the `?` or the panic that
\* ends it.
AppRenderCalls(outcome) ==
    CASE outcome = "NoTarget" -> <<>>
      [] outcome = "NotLive" -> <<"is_live">>
      [] outcome \in {"SurfaceError", "EngineMissing"} ->
            <<"is_live", "get_current_texture">>
      [] outcome \in {"Panic", "RenderErr"} ->
            <<"is_live", "get_current_texture", "engine.render">>
      [] outcome = "Ok" ->
            <<"is_live", "get_current_texture", "engine.render", "present",
              "request_redraw">>

\* Whether a redraw is requested once App::render has returned:
\* target.window().request_redraw() is its last statement, after every `?`
\* and after output.present().
request_redraw(outcome) == outcome = "Ok"

\* WindowEvent::RedrawRequested: self.render().err().map(|e| warn!("{e}")).
\* The event comes from a request_redraw of the App or, with os, from the
\* window system; acquired: whether get_current_texture succeeds.
RedrawRequested ==
    /\ app.stage = "running"
    /\ \E os \in BOOLEAN, acquired \in BOOLEAN, views \in 0..2 :
           /\ os \/ app.redraw_requested
           /\ IF TargetState(app) = "Live" /\ acquired /\ app.engine
              THEN Render(create_scene_data, views)
              ELSE UNCHANGED <<model_info, frame_info, engine, frame>>
           /\ LET outcome ==
                      AppRenderOutcome(TargetState(app), app.engine, acquired,
                                       frame'.result)
                  calls == AppRenderCalls(outcome)
                  data == get_data(app.target)
              IN  app' = [ app EXCEPT
                             !.stage = IF outcome = "Panic" THEN "crashed" ELSE @,
                             !.panic = IF outcome = "Panic" THEN "render" ELSE @,
                             !.calls = calls,
                             !.outcome = outcome,
                             !.vp = IF Done(calls, "engine.render")
                                    THEN <<data.vp_width, data.vp_height>>
                                    ELSE <<0, 0>>,
                             !.presented = Done(calls, "present"),
                             !.warned = outcome \in {"SurfaceError", "EngineMissing",
                                                     "RenderErr"},
                             !.redraw_requested = request_redraw(outcome) ]
    /\ UNCHANGED <<loader, pad, gpu, context>>

\* WindowEvent::Resized(size): App::resize
Resized ==
    /\ app.stage = "running"
    /\ \E size \in Sizes :
           app' = [ app EXCEPT
                      !.calls = <<>>,
                      !.vp = <<0, 0>>,
                      !.target = IF app.has_target
                                 THEN resize_surface(@, size)
                                 ELSE @ ]
    /\ UNCHANGED <<model_info, frame_info, engine, frame, loader, pad, gpu, context>>

\* WindowEvent::CloseRequested: event_loop.exit()
CloseRequested ==
    /\ app.stage = "running"
    /\ app' = [app EXCEPT !.stage = "exited", !.calls = <<>>,
                          !.vp = <<0, 0>>]
    /\ UNCHANGED <<model_info, frame_info, engine, frame, loader, pad, gpu, context>>

\* Any other WindowEvent: AppState::handle_input
HandleInput ==
    /\ app.stage = "running"
    /\ \E key \in BOOLEAN :
           app' = [app EXCEPT !.state = IF key THEN "changed" ELSE @,
                              !.calls = <<>>, !.vp = <<0, 0>>]
    /\ UNCHANGED <<model_info, frame_info, engine, frame, loader, pad, gpu, context>>

AppNext ==
    Resumed \/ RedrawRequested \/ Resized \/ CloseRequested \/ HandleInput

AppSpec == AppInit /\ [][AppNext]_vars

---------------------------------------------------------------------------
(* The expansion pass on the device: render dispatches one work group per  *)
(* object (dispatch_workgroups(objects.len(), 1, 1)), and the work units   *)
(* run in any interleaving.  Work unit i copies the segments of its frame  *)
(* to the segment buffer from its segment_offset on and writes 6 vertices  *)
(* for each of its shards from its shard_offset on.  The shard-vertex      *)
(* buffer is counted in slots of 6 vertices; slots are 0-based.            *)

\* What an element holds that no unit has written.
Unwritten == <<0, 0>>

\* The writes of work unit i in the order it makes them: k-th segment of
\* its frame, then k-th shard of its frame.
UnitWrites(i) ==
    LET r == frame.object_scene_data[i]
        info == frame_info[r.frame_index + 1]
    IN  [ k \in 1..(info.segment_size + info.shard_size) |->
            IF k <= info.segment_size
            THEN [ buffer |-> "segment", index |-> r.segment_offset + (k - 1),
                   value |-> <<i, k>> ]
            ELSE [ buffer |-> "shard_vertex",
                   index |-> r.shard_offset + (k - info.segment_size - 1),
                   value |-> <<i, k>> ] ]

\* The slots of the two expansion buffers of engine e.
Slots(e) ==
    [ segment |-> e.segment_frame_buffer.count,
      shard_vertex |-> e.shard_vertex_frame_buffer.count \div 6 ]

\* The slot a write to index lands in, in a buffer of slots slots: its own
\* when it lies in the buffer; past the end the device either restricts the
\* index to the last slot or skips the write (-1), by its policy.
Landing(index, slots, policy) ==
    IF index < slots THEN index
    ELSE IF policy = "Restrict" THEN slots - 1
    ELSE -1

\* The pass as it starts for the frame render has just submitted.
StartPass(f, e, policy) ==
    [ stage |-> "running",
      policy |-> policy,
      done |-> [i \in 1..f.dispatch_workgroups |-> 0],
      contents |->
          [ segment |-> [x \in 0..(Slots(e).segment - 1) |-> Unwritten],
            shard_vertex |-> [x \in 0..(Slots(e).shard_vertex - 1) |-> Unwritten] ],
      writers |->
          [ segment |-> [x \in 0..(Slots(e).segment - 1) |-> {}],
            shard_vertex |-> [x \in 0..(Slots(e).shard_vertex - 1) |-> {}] ] ]

ExpandInit ==
    /\ model_info \in ModelInfos
    /\ frame_info \in {SimpleLoader_new(m) : m \in Models}
    /\ engine = RenderEngine_new(model_info)
    /\ frame = NoFrame
    /\ loader = NoLoad
    /\ pad = NoPad
    /\ app = NoApp
    /\ gpu = NoGpu
    /\ context = NoContext

\* RenderEngine::render for the first frame; when it submits, the pass
\* starts on a device of either bounds-check policy.
SubmitFrame ==
    /\ gpu.stage = "none"
    /\ frame.result = "None"
    /\ \E objects \in SeqUpTo(FrameIndices, MaxWorkUnits), views \in 0..2 :
           Render(objects, views)
    /\ \E policy \in {"Restrict", "SkipWrite"} :
           gpu' = IF Done(frame'.commands, "submit")
                  THEN StartPass(frame', engine', policy)
                  ELSE NoGpu
    /\ UNCHANGED <<loader, pad, app, context>>

\* Work unit i makes its next write.
ExpandStep(i) ==
    /\ gpu.stage = "running"
    /\ gpu.done[i] < Len(UnitWrites(i))
    /\ LET w == UnitWrites(i)[gpu.done[i] + 1]
           slot == Landing(w.index, Slots(engine)[w.buffer], gpu.policy)
       IN  gpu' = [ gpu EXCEPT
                      !.done[i] = @ + 1,
                      !.contents[w.buffer] =
                          IF slot >= 0 THEN [@ EXCEPT ![slot] = w.value] ELSE @,
                      !.writers[w.buffer] =
                          IF slot >= 0 THEN [@ EXCEPT ![slot] = @ \cup {i}] ELSE @ ]
    /\ UNCHANGED <<model_info, frame_info, engine, frame, loader, pad, app, context>>

ExpandNext ==
    \/ SubmitFrame
    \/ \E i \in 1..MaxWorkUnits :
           i <= frame.dispatch_workgroups /\ ExpandStep(i)

ExpandSpec == ExpandInit /\ [][ExpandNext]_vars

---------------------------------------------------------------------------
(* What the properties below speak of.                                     *)

DynamicBuffers == {"object", "segment", "shard_vertex"}

\* The element capacity of each dynamic buffer of engine e.
Capacity(e) ==
    [ object |-> e.object_scene_buffer.count,
      segment |-> e.segment_frame_buffer.count,
      shard_vertex |-> e.shard_vertex_frame_buffer.count ]

\* The demand a scene makes on each dynamic buffer.
Demand(objects) ==
    [ object |-> Len(objects),
      segment |-> SumField(objects, Len(objects), "segment_size"),
      shard_vertex |-> 6 * SumField(objects, Len(objects), "shard_size") ]

\* The handles and sizes of the dynamic buffers, and the bind groups.
BufferHandles(e) ==
    <<e.object_scene_buffer, e.segment_frame_buffer, e.shard_vertex_frame_buffer>>

BindGroups(e) ==
    <<e.frame_bind_group, e.frame_read_bind_group, e.scene_bind_group>>

\* Every bind group that refers to a dynamic buffer binds the buffer the
\* engine holds now.
BindingsCurrent(e) ==
    /\ e.frame_bind_group.Segment = e.segment_frame_buffer.id
    /\ e.frame_bind_group.ShardVertex = e.shard_vertex_frame_buffer.id
    /\ e.frame_read_bind_group.Segment = e.segment_frame_buffer.id
    /\ e.frame_read_bind_group.ShardVertex = e.shard_vertex_frame_buffer.id
    /\ e.scene_bind_group.Object = e.object_scene_buffer.id

\* The first of c, 2c, 4c, ... that is >= d.
RECURSIVE DoubledUntil(_, _)
DoubledUntil(c, d) == IF c >= d THEN c ELSE DoubledUntil(2 * c, d)

\* Some call of render has returned (or panicked).
Rendered == frame.result # "None"

---------------------------------------------------------------------------
\* C1: for each dynamic buffer the capacity never decreases from frame to
\* frame, and after a frame's capacity step it is >= that frame's demand.
C1_CapacityCoversDemand ==
    [][ \A b \in DynamicBuffers :
            /\ Capacity(engine')[b] >= Capacity(engine)[b]
            /\ Capacity(engine')[b] >= Demand(frame'.objects)[b] ]_vars

\* C2: render never answers with an "exceeds buffer size" error.
C2_NeverRejected ==
    frame.result \notin {"ErrObjects", "ErrShards", "ErrSegments"}

\* C3: whenever the expansion stage is dispatched, the segment buffer holds
\* the frame's segments and the shard-vertex buffer 6 vertices per shard.
C3_DispatchWithinCapacity ==
    Done(frame.commands, "compute_pass") =>
        /\ Capacity(engine).segment >= Demand(frame.objects).segment
        /\ Capacity(engine).shard_vertex >= Demand(frame.objects).shard_vertex

\* The region of an expansion buffer that record r of the object buffer
\* assigns to its instance: [offset, offset + size) of the given kind.
Region(r, offset, size) ==
    r[offset] .. (r[offset] + frame_info[r.frame_index + 1][size] - 1)

\* The regions of the records d partition 0 .. total-1 in index order.
Partition(d, offset, size) ==
    /\ Len(d) > 0 => d[1][offset] = 0
    /\ \A i \in 1..(Len(d) - 1) :
           d[i + 1][offset] = d[i][offset] + frame_info[d[i].frame_index + 1][size]
    /\ \A i \in 1..Len(d) :
           Cardinality(Region(d[i], offset, size))
               = frame_info[d[i].frame_index + 1][size]
    /\ \A i, j \in 1..Len(d) :
           i # j => Region(d[i], offset, size) \cap Region(d[j], offset, size) = {}
    /\ UNION {Region(d[i], offset, size) : i \in 1..Len(d)}
           = 0 .. (SumField([i \in 1..Len(d) |-> d[i].frame_index], Len(d), size) - 1)

\* C4: the offsets written into the instance descriptors partition each
\* expansion buffer: the first instance starts at 0, each next one where the
\* previous ends, so the regions are pairwise disjoint, contiguous, gap-free
\* and exactly as large as the instance's FrameInfo says.
C4_OffsetsPartition ==
    Done(frame.commands, "write_object_scene_buffer") =>
        LET d == frame.object_scene_data
        IN  /\ Len(d) = Len(frame.objects)
            /\ \A i \in 1..Len(d) : d[i].frame_index = frame.objects[i]
            /\ Partition(d, "clip_offset", "clip_size")
            /\ Partition(d, "shard_offset", "shard_size")
            /\ Partition(d, "segment_offset", "segment_size")

\* A frame of three instances of two different frames was written, with
\* three different offsets for the last instance.
C4_Witness ==
    /\ frame.result = "Ok"
    /\ Len(frame.object_scene_data) = 3
    /\ frame.objects[1] # frame.objects[2]
    /\ LET r == frame.object_scene_data[3]
       IN  /\ r.clip_offset # r.shard_offset
           /\ r.shard_offset # r.segment_offset
           /\ r.segment_offset > 0

\* C5: when a frame's demand exceeds the capacity, the new capacity is the
\* first of capacity*2, capacity*4, ... that is >= the demand, and the
\* capacity never decreases.
C5_GrowthByDoubling ==
    [][ \A b \in DynamicBuffers :
            /\ Capacity(engine')[b] >= Capacity(engine)[b]
            /\ Demand(frame'.objects)[b] > Capacity(engine)[b] =>
                   Capacity(engine')[b]
                       = DoubledUntil(Capacity(engine)[b], Demand(frame'.objects)[b])
      ]_vars

\* C6: with the instance-descriptor buffer at capacity 1, one frame of 5
\* instances leaves its capacity at 8.
C6_FiveInstancesGrowToEight ==
    [][ (Capacity(engine).object = 1 /\ Len(frame'.objects) = 5) =>
            Capacity(engine').object = 8 ]_vars

\* C7: a frame whose demand is within the capacity of every dynamic buffer
\* changes no capacity, recreates no buffer and rebuilds no bind group; nor
\* does a frame that renders the instance list of the frame before it.
C7_NoChangeWithinCapacity ==
    [][ ( \/ \A b \in DynamicBuffers :
                 Demand(frame'.objects)[b] <= Capacity(engine)[b]
          \/ (Rendered /\ frame'.objects = frame.objects) ) =>
            /\ Capacity(engine') = Capacity(engine)
            /\ BufferHandles(engine') = BufferHandles(engine)
            /\ BindGroups(engine') = BindGroups(engine) ]_vars

\* A frame within every capacity was rendered and the engine is as built.
C7_Witness ==
    /\ frame.result = "Ok"
    /\ \A b \in DynamicBuffers : Demand(frame.objects)[b] <= Capacity(engine)[b]
    /\ engine = RenderEngine_new(model_info)

C9_CheckModelScenario ==
    ( /\ frame_info = SimpleLoader_new(CheckModel)
      /\ frame.objects = <<0, 0>>
      /\ frame.result = "Ok" ) =>
        /\ frame_info = <<[clip_size |-> 2, shard_size |-> 2, segment_size |-> 7]>>
        /\ frame.segment_extent = 14
        /\ 6 * frame.shard_extent = 24
        /\ frame.object_scene_data =
             << [frame_index |-> 0, clip_offset |-> 0, shard_offset |-> 0,
                 segment_offset |-> 0],
                [frame_index |-> 0, clip_offset |-> 2, shard_offset |-> 2,
                 segment_offset |-> 7] >>

\* C10: the demands computed for a frame are the number of instances, the
\* sum of segment_size and 6 times the sum of shard_size; the value compared
\* with the segment buffer's capacity is the segment_size sum.
C10_DemandsComputed ==
    Rendered =>
        /\ (frame.result = "ErrObjects")
              <=> (Demand(frame.objects).object > Capacity(engine).object)
        /\ frame.result # "ErrObjects" =>
              /\ frame.segment_extent = Demand(frame.objects).segment
              /\ 6 * frame.shard_extent = Demand(frame.objects).shard_vertex

\* The steps of a frame that is rendered, in the order the claim gives them.
FrameSteps ==
    << "write_object_scene_buffer", "write_world_uniforms_buffer",
       "compute_pass", "render_pass", "submit" >>

\* C12: within a frame the steps run in a fixed order: the capacity checks
\* come before every other step, then the instance-descriptor write, the
\* uniform write, the compute pass and the render pass, each once; the
\* sequence is submitted exactly once per rendered frame, after both writes,
\* and never for a frame that was not rendered.
C12_StepOrder ==
    /\ frame.result \in {"ErrObjects", "ErrShards", "ErrSegments"} =>
           frame.commands = <<>>
    /\ frame.result = "Ok" =>
           /\ \A k \in 1..Len(FrameSteps) : Count(frame.commands, FrameSteps[k]) = 1
           /\ \A k \in 1..(Len(FrameSteps) - 1) :
                  Before(frame.commands, FrameSteps[k], FrameSteps[k + 1])
    /\ frame.result # "Ok" => Count(frame.commands, "submit") = 0

\* A frame was rendered and submitted.
C12_Witness ==
    /\ frame.result = "Ok"
    /\ Done(frame.commands, "submit")
    /\ frame.dispatch_workgroups = Len(frame.objects)

\* C13: when render cannot obtain the view of the instance-descriptor write
\* or of the uniform write, it returns an error, records no dispatch, no
\* draw and no submit, and leaves the engine and the contents staged for its
\* buffers as they were before the call.
C13_FailedWriteLeavesState ==
    [][ frame'.result \in {"ErrObjectView", "ErrUniformView"} =>
            /\ ~Done(frame'.commands, "compute_pass")
            /\ ~Done(frame'.commands, "render_pass")
            /\ ~Done(frame'.commands, "submit")
            /\ engine' = engine
            /\ frame'.object_scene_data = <<>>
            /\ frame'.world_uniforms_data = <<>> ]_vars

\* C15: no call of render panics, whatever the scene, a scene without
\* instances included.
C15_NeverPanics == frame.result # "Panic"

\* C16: the draw of a frame is issued with 6 vertices for every shard of the
\* frame, the shards of a frame being the sum of shard_size over its
\* instances.
C16_DrawVertexCount ==
    Done(frame.commands, "render_pass") =>
        frame.draw_vertices
            = 6 * SumField(frame.objects, Len(frame.objects), "shard_size")

\* A frame of instances of two different frames was drawn, whose shard
\* count differs from its clip and segment sums.
C16_Witness ==
    /\ Done(frame.commands, "render_pass")
    /\ Len(frame.objects) >= 2
    /\ frame.objects[1] # frame.objects[2]
    /\ frame.draw_vertices > 0
    /\ frame.draw_vertices
           # 6 * SumField(frame.objects, Len(frame.objects), "clip_size")
    /\ frame.draw_vertices
           # 6 * SumField(frame.objects, Len(frame.objects), "segment_size")

\* The shards (0-based) a frame f names, and how many segments it names.
ShardsOf(f) == f.shard_range[1] .. (f.shard_range[2] - 1)

SegmentsOf(range) == range[1] .. (range[2] - 1)

\* info is the FrameInfo the claim describes for frame f of model m: one
\* more than the largest clip_depth among the frame's shards, the number of
\* its shards and the number of its segments.
DerivedFrom(info, m, f) ==
    /\ \E i \in ShardsOf(f) : m.shards[i + 1].clip_depth = info.clip_size - 1
    /\ \A i \in ShardsOf(f) : m.shards[i + 1].clip_depth <= info.clip_size - 1
    /\ info.shard_size = Cardinality(ShardsOf(f))
    /\ info.segment_size = Cardinality(SegmentsOf(f.segment_range))

\* C17 as it stands: for every frame of the model SimpleLoader::new derives
\* clip_size = 1 + the largest clip_depth among the frame's shards,
\* shard_size = the number of shards and segment_size = the number of
\* segments of the frame, one entry per frame in frame order.
C17_FrameInfoForEveryFrame ==
    loader.stage = "loaded" =>
        /\ Len(loader.frame_info) = Len(loader.model.frames)
        /\ \A k \in 1..Len(loader.model.frames) :
               DerivedFrom(loader.frame_info[k], loader.model, loader.model.frames[k])

\* C17 amended: the same for every frame that has a shard; a frame whose
\* shard_range is empty gets the all-zero FrameInfo.
C17_FrameInfoDerived ==
    loader.stage = "loaded" =>
        /\ Len(loader.frame_info) = Len(loader.model.frames)
        /\ \A k \in 1..Len(loader.model.frames) :
               IF ShardsOf(loader.model.frames[k]) = {}
               THEN loader.frame_info[k]
                        = [clip_size |-> 0, shard_size |-> 0, segment_size |-> 0]
               ELSE DerivedFrom(loader.frame_info[k], loader.model,
                                loader.model.frames[k])

\* A model of two frames was loaded, one without shards and one with two
\* shards and a segment.
C17_Witness ==
    /\ loader.stage = "loaded"
    /\ Len(loader.frame_info) = 2
    /\ \E k \in 1..2 : ShardsOf(loader.model.frames[k]) = {}
    /\ \E k \in 1..2 :
           /\ loader.frame_info[k].clip_size = 2
           /\ loader.frame_info[k].shard_size = 2
           /\ loader.frame_info[k].segment_size >= 1

\* A range is [start, end) with start <= end.
HalfOpen(range) == range[1] <= range[2]

\* The ranges of model m are as the claim describes them.
RangesConsistent(m) ==
    /\ \A i \in 1..Len(m.shards) : HalfOpen(m.shards[i].segment_range)
    /\ \A k \in 1..Len(m.frames) :
           LET f == m.frames[k]
           IN  /\ HalfOpen(f.shard_range)
               /\ HalfOpen(f.segment_range)
               /\ \A i \in ShardsOf(f) :
                      /\ f.segment_range[1] <= m.shards[i + 1].segment_range[1]
                      /\ m.shards[i + 1].segment_range[2] <= f.segment_range[2]
               /\ \A i \in ShardsOf(f) :
                      (i + 1) \in ShardsOf(f) =>
                          m.shards[i + 2].segment_range[1]
                              = m.shards[i + 1].segment_range[2]
    /\ \A k \in 1..(Len(m.frames) - 1) :
           /\ m.frames[k + 1].shard_range[1] = m.frames[k].shard_range[2]
           /\ m.frames[k + 1].segment_range[1] = m.frames[k].segment_range[2]

\* C18: in every model make_load_test produces, whatever counts it draws,
\* and in the check model, every range has start <= end, the segment_ranges
\* of the shards of a frame follow one another, the ranges of consecutive
\* frames follow one another, and the segment_range of a frame contains the
\* segment_range of each shard of its shard_range.
C18_RangesConsistent ==
    ( /\ loader.stage \in {"model", "loaded"}
      /\ (loader.by = "make_load_test" \/ loader.model = CheckModel) ) =>
        RangesConsistent(loader.model)

\* make_load_test has produced a model of two frames that both have shards
\* and segments, the first of them two shards.
C18_Witness ==
    /\ loader.stage = "model"
    /\ loader.by = "make_load_test"
    /\ Len(loader.model.frames) = 2
    /\ Cardinality(ShardsOf(loader.model.frames[1])) = 2
    /\ Cardinality(ShardsOf(loader.model.frames[2])) >= 1
    /\ \A k \in 1..2 : Cardinality(SegmentsOf(loader.model.frames[k].segment_range)) >= 1

\* The call has returned for a size whose sum with the alignment mask fits
\* the word.
Padded ==
    /\ pad.stage = "done"
    /\ pad.size + (COPY_BUFFER_ALIGNMENT - 1) < AddressLimit

\* The smallest multiple of the copy alignment that is >= size.
SmallestMultiple(size) ==
    CHOOSE m \in 0..(size + COPY_BUFFER_ALIGNMENT) :
        /\ m % COPY_BUFFER_ALIGNMENT = 0
        /\ m >= size
        /\ \A n \in 0..(size + COPY_BUFFER_ALIGNMENT) :
               (n % COPY_BUFFER_ALIGNMENT = 0 /\ n >= size) => m <= n

\* What the amended and the original statement share: the result is the
\* smallest multiple of 4 that is >= size, 4 for size 0, and so a non-zero
\* multiple of 4.
PaddedAsRounded ==
    /\ ~pad.panicked
    /\ pad.size > 0 => pad.result = SmallestMultiple(pad.size)
    /\ pad.size = 0 => pad.result = COPY_BUFFER_ALIGNMENT
    /\ pad.result > 0
    /\ pad.result % COPY_BUFFER_ALIGNMENT = 0

\* C20 as it stands: pad_to_copy_buffer_alignment(size) is the smallest
\* multiple of 4 that is >= size, and 4 for size 0; the result is a non-zero
\* multiple of 4 and exceeds size by at most 3, for every size whose sum
\* with 3 fits the word.
C20_PaddedWithinThree ==
    Padded => (PaddedAsRounded /\ pad.result - pad.size <= 3)

\* C20 amended: the same, but the result exceeds size by at most 3 for a
\* size of at least 1 and by exactly 4 for size 0.
C20_PaddedToAlignment ==
    Padded =>
        /\ PaddedAsRounded
        /\ pad.size > 0 => (pad.result >= pad.size /\ pad.result - pad.size <= 3)
        /\ pad.size = 0 => pad.result - pad.size = 4

\* A size that is one more than a multiple of 4 was padded by 3.
C20_Witness ==
    /\ Padded
    /\ pad.size > COPY_BUFFER_ALIGNMENT
    /\ pad.size % COPY_BUFFER_ALIGNMENT = 1
    /\ pad.result = pad.size + 3

\* C14: after a frame was skipped because App::render returned an error
\* (logged by the redraw handler), a redraw has been requested again, so
\* that the next frame is attempted without another window event.
C14_RedrawAfterFailure ==
    (app.stage = "running" /\ app.outcome \in {"SurfaceError", "RenderErr"}) =>
        /\ app.warned
        /\ app.redraw_requested

\* Every work unit of the pass has made all its writes.
PassDone ==
    /\ gpu.stage = "running"
    /\ \A i \in 1..frame.dispatch_workgroups : gpu.done[i] = Len(UnitWrites(i))

\* The contents the pass leaves when the work units run one after the
\* other in index order: from write k of unit i on, starting from contents.
RECURSIVE InOrder(_, _, _)
InOrder(contents, i, k) ==
    IF i > frame.dispatch_workgroups
    THEN contents
    ELSE IF k > Len(UnitWrites(i))
    THEN InOrder(contents, i + 1, 1)
    ELSE LET w == UnitWrites(i)[k]
             slot == Landing(w.index, Slots(engine)[w.buffer], gpu.policy)
         IN  InOrder(IF slot >= 0
                     THEN [contents EXCEPT ![w.buffer][slot] = w.value]
                     ELSE contents,
                     i, k + 1)

Buffer(e, b) ==
    CASE b = "object" -> e.object_scene_buffer
      [] b = "segment" -> e.segment_frame_buffer
      [] b = "shard_vertex" -> e.shard_vertex_frame_buffer

C22_OneWorkGroupPerInstance ==
    Done(frame.commands, "compute_pass") =>
        /\ frame.dispatch_workgroups = Len(frame.objects)
        /\ frame.dispatch_workgroups = Len(frame.object_scene_data)

\* A frame of three instances was dispatched with three work groups.
C22_Witness ==
    /\ Done(frame.commands, "compute_pass")
    /\ Len(frame.object_scene_data) = 3
    /\ frame.dispatch_workgroups = 3

\* C24: a frame that render rejects with a capacity error is rejected
\* before the command encoder is created and before any buffer is written:
\* nothing is staged, nothing is submitted and the engine stays as it was.
C24_RejectedBeforeAnyWrite ==
    [][ frame'.result \in {"ErrObjects", "ErrShards", "ErrSegments"} =>
            /\ frame'.commands = <<>>
            /\ frame'.object_scene_data = <<>>
            /\ frame'.world_uniforms_data = <<>>
            /\ engine' = engine ]_vars

\* A frame with more shards than requested was rejected and nothing was
\* done for it.
C24_Witness ==
    /\ frame.result = "ErrShards"
    /\ Len(frame.objects) >= 1
    /\ frame.commands = <<>>
    /\ engine = RenderEngine_new(model_info)

\* C28: every DeviceId handed out by the RenderContext stays valid: the
\* device list only grows and keeps every device at its index, a device is
\* added only when no device of the list supports the surface asked for,
\* and the device_id of every target made is an index of the list, so
\* get_device_by_id never reads out of bounds.
C28_DeviceIdsStayValid ==
    [][ /\ Len(context'.devices) >= Len(context.devices)
        /\ \A i \in 1..Len(context.devices) :
               context'.devices[i] = context.devices[i]
        /\ Len(context'.devices) > Len(context.devices) =>
               \A i \in 1..Len(context.devices) :
                   context.devices[i] \notin context'.surface
        /\ \A t \in 1..Len(context'.targets) :
               context'.targets[t] \in 0..(Len(context'.devices) - 1)
        /\ ~context'.panicked ]_vars

\* Three targets were made on two devices, one of them on a device that
\* existed already, and the device of a target on the second device was
\* read.
C28_Witness ==
    /\ context.stage = "get_target_device"
    /\ Len(context.devices) = 2
    /\ context.targets = <<0, 1, 1>>
    /\ context.read = 1
    /\ ~context.panicked

Minimized(a) == a.has_target /\ a.target.minimized

\* C25: the width and the height of a created target's surface
\* configuration are always > 0: a target is not created from a window of
\* zero size, a resize with a zero dimension leaves the size as it was and
\* only minimizes, and the viewport handed to the scene is the
\* configuration's size, never zero.
C25_SizeNeverZero ==
    [][ /\ app'.has_target =>
               app'.target.width > 0 /\ app'.target.height > 0
        /\ Done(app'.calls, "engine.render") =>
               /\ app'.vp = <<app'.target.width, app'.target.height>>
               /\ app'.vp[1] > 0 /\ app'.vp[2] > 0
        /\ (app.has_target /\ Minimized(app')) =>
               /\ app'.target.width = app.target.width
               /\ app'.target.height = app.target.height ]_vars

\* A target of size MaxSide by 1 was minimized and kept its size.
C25_Witness ==
    /\ Minimized(app)
    /\ app.target.width = MaxSide
    /\ app.target.height = 1

\* C26: while the target is minimized App::render returns Ok after
\* is_live: no frame is acquired, rendered or presented and the engine is
\* not called; the target becomes live again exactly by a resize to a size
\* with both dimensions > 0.
C26_MinimizedSkipsFrame ==
    [][ Minimized(app) =>
            /\ frame' = frame
            /\ engine' = engine
            /\ ~Done(app'.calls, "get_current_texture")
            /\ ~Done(app'.calls, "engine.render")
            /\ ~Done(app'.calls, "present")
            /\ app'.calls = <<"is_live">> =>
                   app'.outcome = "NotLive" /\ ~app'.warned
            /\ ~Minimized(app') <=>
                   \E size \in Sizes :
                       /\ size[1] > 0 /\ size[2] > 0
                       /\ app'.target = resize_surface(app.target, size) ]_vars

\* A frame had been rendered, the target was minimized and the redraw that
\* came then did nothing after is_live.
C26_Witness ==
    /\ Minimized(app)
    /\ frame.result = "Ok"
    /\ app.calls = <<"is_live">>
    /\ app.outcome = "NotLive"

\* C27: a surface frame is presented only after it was acquired and the
\* engine's render for it returned Ok; when acquiring fails, the engine is
\* missing or render fails, present is not called.
C27_PresentAfterRenderOk ==
    /\ Done(app.calls, "present") =>
           /\ Before(app.calls, "get_current_texture", "present")
           /\ Before(app.calls, "engine.render", "present")
           /\ frame.result = "Ok"
           /\ app.outcome = "Ok"
    /\ (Done(app.calls, "is_live") /\ app.outcome # "Ok") =>
           ~Done(app.calls, "present")

\* A frame was rendered and presented.
C27_Witness ==
    /\ Done(app.calls, "present")
    /\ app.presented
    /\ frame.result = "Ok"

\* The number of segments the shards of frame f of model m name.
ShardSegments(m, f) ==
    Cardinality(UNION { { <<i, x>> : x \in SegmentsOf(m.shards[i + 1].segment_range) } :
                        i \in ShardsOf(f) })

\* C29: for every model make_load_test produces, the FrameInfo that
\* SimpleLoader::new derives for a frame has clip_size = shard_size (both 0
\* for a frame without shards) and segment_size = the sum of the segment
\* counts of the shards of the frame.
C29_ClipSizeIsShardSize ==
    (loader.stage = "loaded" /\ loader.by = "make_load_test") =>
        \A k \in 1..Len(loader.model.frames) :
            LET info == loader.frame_info[k]
                f == loader.model.frames[k]
            IN  /\ info.clip_size = info.shard_size
                /\ ShardsOf(f) = {} => info.clip_size = 0 /\ info.shard_size = 0
                /\ info.segment_size = ShardSegments(loader.model, f)

\* A generated model was loaded that has a frame without shards and a
\* frame of two shards, of two segments and of none.
C29_Witness ==
    /\ loader.stage = "loaded"
    /\ loader.by = "make_load_test"
    /\ Len(loader.model.frames) = 2
    /\ loader.frame_info[1] = [clip_size |-> 0, shard_size |-> 0, segment_size |-> 0]
    /\ loader.frame_info[2] = [clip_size |-> 2, shard_size |-> 2, segment_size |-> 2]
    /\ loader.model.shards[2].segment_range = <<2, 2>>

\* C30: in every model make_load_test produces, the first three indices of
\* every segment are indices into the model's vertices, the fourth is -1,
\* and there are exactly two vertices for every segment; a shard without
\* segments adds no vertex and no segment.
C30_SegmentIndicesValid ==
    (loader.stage \in {"model", "loaded"} /\ loader.by = "make_load_test") =>
        LET m == loader.model
        IN  /\ Len(m.idx) = m.segments
            /\ \A x \in 1..Len(m.idx) :
                   /\ \A j \in 1..3 : m.idx[x][j] \in 0..(m.vertices - 1)
                   /\ m.idx[x][4] = -1
            /\ m.vertices = 2 * m.segments
            /\ m.segments =
                   Cardinality(UNION { { <<i, x>> :
                                           x \in SegmentsOf(m.shards[i].segment_range) } :
                                       i \in 1..Len(m.shards) })

\* A generated model has a shard of two segments after a shard of one
\* segment and a shard without segments.
C30_Witness ==
    /\ loader.stage = "model"
    /\ loader.by = "make_load_test"
    /\ loader.model.vertices = 6
    /\ loader.model.idx = << <<1, 1, 0, -1>>, <<5, 4, 2, -1>>, <<4, 5, 3, -1>> >>
    /\ \E i \in 1..Len(loader.model.shards) :
           loader.model.shards[i].segment_range[1]
               = loader.model.shards[i].segment_range[2]

\* C21: for every model slot the element size of the registry is the byte
\* size of the host struct uploaded into it (Vertex 8, Segment 16, Shard 48,
\* Frame 16), so every region SimpleLoader::load maps, of size() * count
\* bytes, has the byte length of the host slice copied into it, and no copy
\* fails on a length that differs.
C21_ElementSizeIsStructSize ==
    /\ \A n \in 1..Len(ModelSlots) :
           /\ ModelGroup_size(ModelSlots[n]) = size_of(HostStruct(ModelSlots[n]))
           /\ ModelGroup_size(ModelSlots[n]) = <<8, 16, 48, 16>>[n]
    /\ loader.stage \in {"uploaded", "load_panicked"} =>
           \A k \in 1..Len(loader.writes) :
               LET w == loader.writes[k]
               IN  /\ w.region = ModelGroup_size(w.slot) * w.count
                   /\ w.region = w.copied
                   /\ w.panic \notin {"copy_from_slice", "write_buffer_with"}

\* The check model was uploaded: 5 vertices, 7 segments, 2 shards and a
\* frame went into regions of 40, 112, 96 and 16 bytes.
C21_Witness ==
    /\ loader.stage = "uploaded"
    /\ loader.model = CheckModel
    /\ [k \in 1..4 |-> loader.writes[k].region] = <<40, 112, 96, 16>>
    /\ [k \in 1..4 |-> loader.writes[k].copied] = <<40, 112, 96, 16>>

====
